---- MODULE Spec2Model ----
(***************************************************************************)
(* A model of doubao-2api: the rotating credential pool                    *)
(* (app/services/credential_manager.py), the browser-backed signer         *)
(* (app/services/playwright_manager.py) and the chat pipeline of the       *)
(* provider (app/providers/doubao_provider.py), buffered and streaming.    *)
(*                                                                         *)
(* Granularity.  get_credential is guarded by a threading.Lock: for        *)
(* threads calling it (SpecPool) it is modelled statement by statement, so *)
(* that any thread interleaving is covered.  Everything else runs on one   *)
(* asyncio event loop: a coroutine runs without interruption from one      *)
(* suspension point (an await that really suspends, or a yield of the      *)
(* streaming generator) to the next, so one action is one such run, and a  *)
(* chat call takes its credential within the run that starts it.           *)
(*                                                                         *)
(* Specifications.  SpecPool: the credential pool under threads.  Spec:    *)
(* the whole service, concurrent calls with whole upstream responses.      *)
(* SpecGate: the signer's lock under contention.  SpecTranslate: one call  *)
(* with every kind of request and upstream answer.  SpecStore: the         *)
(* conversation context over several turns.                                *)
(***************************************************************************)
EXTENDS Integers, Sequences, FiniteSets, TLC

\* ------------------------------------------------------------------ bounds
\* Chat call slots that may be in flight at the same time.
NumCalls == 2
\* Standalone threads calling get_credential in a loop (SpecPool).
NumThreads == 2
\* get_credential calls the standalone threads make in total.
MaxAcq == 6
\* Largest credential pool (SpecPool draws the pool size from 1..MaxPool).
MaxPool == 3
\* Chat calls started in one behaviour (a slot is used again when its call is over).
MaxCalls == 3
\* Lines of one upstream response body: with every kind of line (SpecTranslate),
\* and with calls running concurrently (Spec).
MaxLines == 3
MaxConcLines == 1
\* Messages in the list of a request.
MaxMessages == 3

Calls == 1..NumCalls
Threads == 1..NumThreads
\* The tasks: chat calls, and standalone threads calling get_credential.
CallTask(c) == <<"call", c>>
ThreadTask(t) == <<"thread", t>>
\* A lifecycle task is one call of PlaywrightManager.initialize or close.
NumInits == 2
NumCloses == 1
\* Calls of close where the lifecycle runs alone (SpecLife).
NumClosers == 2
Inits == 1..NumInits
Closes == 1..NumCloses
Closers == 1..NumClosers
InitTask(i) == <<"init", i>>
CloseTask(x) == <<"close", x>>
LifeTasks == {InitTask(i) : i \in Inits} \cup {CloseTask(x) : x \in Closes \cup Closers}
Nobody == <<"nobody", 0>>

\* ------------------------------------------------------------ credentials
\* A raw cookie is its ";"-separated fields, each a <<name, value>> pair.
\* Every second cookie of the pool already carries an msToken field.
Cookie(i) ==
    IF i % 2 = 1 THEN << <<"sid", ToString(i)>> >>
    ELSE << <<"msToken", "OLD">>, <<"sid", ToString(i)>> >>
CookiePool(k) == [i \in 1..k |-> Cookie(i)]

\* ------------------------------------------------------------------ state
VARIABLES
    \* PlaywrightManager (one instance per process, __new__ lines 42-46)
    initialized,    \* _initialized
    gate,           \* _lock (asyncio.Lock): the task holding it, or Nobody
    gateQ,          \* _lock's waiters, first come first served
    ms_token,       \* ms_token: Unset until initialize line 74 first runs
    browser,        \* self.browser: "none", "open" or "closed"
    livePages,      \* browser pages alive with a response handler registered
    life,           \* per lifecycle task (an initialize or a close call): its position
    launches,       \* history: browsers launched
    teardowns,      \* history: browser.close() calls made by close()
    \* SessionManager (conversation context store)
    store,          \* session key -> conversation id, or Absent
    writeLog,       \* history: per session key, the ids written to its entry, in order
    \* DoubaoProvider: the chat calls
    call,           \* per call slot: the locals of _non_stream_completion / _stream_generator
    started,        \* history: chat calls started so far
    \* CredentialManager
    credentials,    \* CredentialManager.credentials
    index,          \* CredentialManager.index
    lock,           \* CredentialManager.lock: the task holding it, or Nobody
    frame,          \* per standalone thread: its activation of get_credential
    lockCount,      \* history: acquisitions of CredentialManager.lock so far
    handed          \* history: ticket (order of taking the lock) -> credential returned

poolVars == <<credentials, index, lock, frame, lockCount, handed>>

signerVars == <<initialized, gate, gateQ, ms_token, browser, livePages, life, launches, teardowns>>
storeVars == <<store, writeLog>>
callVars == <<call, started>>
vars == <<poolVars, signerVars, storeVars, callVars>>

NoFrame == [pc |-> "out", credential |-> <<>>, ticket |-> -1]

\* --------------------------------------------------------- CredentialManager
\* CredentialManager.__init__ with a pool of k credentials.
InitPoolOf(k) ==
    /\ credentials = CookiePool(k)
    /\ index = 0
    /\ lock = Nobody
    /\ frame = [t \in Threads |-> NoFrame]
    /\ lockCount = 0
    /\ handed = << >>

\* "with self.lock" of a get_credential that took no lock at all.
LockFreeUnguarded == TRUE
\* "with self.lock": threading.Lock.acquire blocks until the lock is free.
LockFree == lock = Nobody
\* self.credentials[self.index]
CurrentCredential == credentials[index + 1]
\* (self.index + 1) % len(self.credentials)
Rotated == (index + 1) % Len(credentials)
\* The history after the acquisition with this ticket returned credential.
Handed(ticket, credential) ==
    [j \in DOMAIN handed \cup {ticket + 1} |->
        IF j = ticket + 1 THEN credential ELSE handed[j]]

\* A standalone thread calls get_credential: it is now at "with self.lock".
ThreadCall(t) ==
    /\ frame[t].pc = "out"
    /\ lockCount + Cardinality({u \in Threads : frame[u].pc = "lock"}) < MaxAcq
    /\ frame' = [frame EXCEPT ![t] = [NoFrame EXCEPT !.pc = "lock"]]
    /\ UNCHANGED <<credentials, index, lock, lockCount, handed, signerVars, storeVars, callVars>>

\* with self.lock: (enter)
GetCredLock(t) ==
    /\ frame[t].pc = "lock"
    /\ LockFree
    /\ lock' = ThreadTask(t)
    /\ lockCount' = lockCount + 1
    /\ frame' = [frame EXCEPT ![t].pc = "read", ![t].ticket = lockCount]
    /\ UNCHANGED <<credentials, index, handed, signerVars, storeVars, callVars>>

\* credential = self.credentials[self.index]
GetCredRead(t) ==
    /\ frame[t].pc = "read"
    /\ frame' = [frame EXCEPT ![t].pc = "advance", ![t].credential = CurrentCredential]
    /\ UNCHANGED <<credentials, index, lock, lockCount, handed, signerVars, storeVars, callVars>>

\* self.index = (self.index + 1) % len(self.credentials); then the with
\* block is left (release) and credential returned.
GetCredAdvance(t) ==
    /\ frame[t].pc = "advance"
    /\ index' = Rotated
    /\ lock' = IF lock = ThreadTask(t) THEN Nobody ELSE lock
    /\ frame' = [frame EXCEPT ![t] = NoFrame]
    /\ handed' = Handed(frame[t].ticket, frame[t].credential)
    /\ UNCHANGED <<credentials, lockCount, signerVars, storeVars, callVars>>

\* --------------------------------------------------------- PlaywrightManager
\* ms_token before initialize line 74 ever ran: the attribute does not exist.
Unset == "<unset>"
\* Python's None.
None == "<None>"
\* "if self.ms_token is not None" in the place of "if self.ms_token".
TokenHeldNotNone(tok) == tok \notin {Unset, None}
\* "if self.ms_token": a token is held when the value is a non-empty string.
TokenHeld(tok) == tok \notin {Unset, None, ""}

NoLife == [pc |-> "idle", outcome |-> "none"]

\* PlaywrightManager.__new__: the one instance, not initialized.
InitSigner ==
    /\ initialized = FALSE
    /\ gate = Nobody
    /\ gateQ = << >>
    /\ ms_token = Unset
    /\ browser = "none"
    /\ livePages = 0
    /\ life = [t \in LifeTasks |-> NoLife]
    /\ launches = 0
    /\ teardowns = 0

\* "async with self._lock" of an operation that did not take the lock.
GateFreeUnguarded == TRUE
\* "async with self._lock" enters without suspending only when the lock is
\* not held and nobody waits for it (asyncio.Lock.acquire).
GateFree == gate = Nobody /\ gateQ = << >>
\* asyncio.Lock.release wakes the first waiter, and nobody can take the lock
\* before it runs: the lock passes to the head of the queue.
GateNext == IF gateQ = << >> THEN Nobody ELSE Head(gateQ)
QueueNext == IF gateQ = << >> THEN << >> ELSE Tail(gateQ)

\* The tasks suspended inside the body of an "async with self._lock" block.
InitBodyPcs == {"launching", "loading", "token_wait"}
CloseBodyPcs == {"closing", "stopping"}

\* initialize, lines 49-55: the unlocked check, the lock, the locked check,
\* up to the first await of the launch.
InitCall(i) ==
    LET t == InitTask(i) IN
    /\ life[t].pc = "idle"
    /\ IF initialized
         THEN /\ life' = [life EXCEPT ![t] = [pc |-> "done", outcome |-> "already"]]
              /\ UNCHANGED <<gate, gateQ>>
         ELSE IF GateFree
           THEN /\ gate' = t
                /\ life' = [life EXCEPT ![t].pc = "launching"]
                /\ UNCHANGED gateQ
           ELSE /\ gateQ' = Append(gateQ, t)
                /\ life' = [life EXCEPT ![t].pc = "wait"]
                /\ UNCHANGED gate
    /\ UNCHANGED <<initialized, ms_token, browser, livePages, launches, teardowns,
                   poolVars, storeVars, callVars>>

\* initialize, lines 51-55, for an initializer that had to wait for the lock.
InitResume(i) ==
    LET t == InitTask(i) IN
    /\ life[t].pc = "wait"
    /\ gate = t
    /\ IF initialized
         THEN /\ life' = [life EXCEPT ![t] = [pc |-> "done", outcome |-> "already"]]
              /\ gate' = GateNext
              /\ gateQ' = QueueNext
         ELSE /\ life' = [life EXCEPT ![t].pc = "launching"]
              /\ UNCHANGED <<gate, gateQ>>
    /\ UNCHANGED <<initialized, ms_token, browser, livePages, launches, teardowns,
                   poolVars, storeVars, callVars>>

\* initialize, lines 55-98: the browser and its page are created, the token
\* is reset (line 74) and the response handler registered (line 86); or one
\* of the awaits raises and the "async with" block is left.
InitLaunch(i, ok) ==
    LET t == InitTask(i) IN
    /\ life[t].pc = "launching"
    /\ IF ok
         THEN /\ browser' = "open"
              /\ launches' = launches + 1
              /\ livePages' = livePages + 1
              /\ ms_token' = None
              /\ life' = [life EXCEPT ![t].pc = "loading"]
              /\ UNCHANGED <<gate, gateQ>>
         ELSE /\ life' = [life EXCEPT ![t] = [pc |-> "done", outcome |-> "failed"]]
              /\ gate' = GateNext
              /\ gateQ' = QueueNext
              /\ UNCHANGED <<browser, launches, livePages, ms_token>>
    /\ UNCHANGED <<initialized, teardowns, poolVars, storeVars, callVars>>

\* initialize, lines 98-134: cookies, navigation (60 s) and the wait for
\* the signing function (30 s); a timeout raises RuntimeError.  With a token
\* already observed the flag is set at once, otherwise after a 10 s sleep.
InitLoad(i, ok) ==
    LET t == InitTask(i) IN
    /\ life[t].pc = "loading"
    /\ IF ~ok
         THEN /\ life' = [life EXCEPT ![t] = [pc |-> "done", outcome |-> "failed"]]
              /\ gate' = GateNext
              /\ gateQ' = QueueNext
              /\ UNCHANGED initialized
         ELSE IF TokenHeld(ms_token)
           THEN /\ initialized' = TRUE
                /\ life' = [life EXCEPT ![t] = [pc |-> "done", outcome |-> "ok"]]
                /\ gate' = GateNext
                /\ gateQ' = QueueNext
           ELSE /\ life' = [life EXCEPT ![t].pc = "token_wait"]
                /\ UNCHANGED <<initialized, gate, gateQ>>
    /\ UNCHANGED <<ms_token, browser, livePages, launches, teardowns,
                   poolVars, storeVars, callVars>>

\* initialize, lines 129-134: the sleep is over; initialized with or
\* without a token.
InitFinish(i) ==
    LET t == InitTask(i) IN
    /\ life[t].pc = "token_wait"
    /\ initialized' = TRUE
    /\ life' = [life EXCEPT ![t] = [pc |-> "done", outcome |-> "ok"]]
    /\ gate' = GateNext
    /\ gateQ' = QueueNext
    /\ UNCHANGED <<ms_token, browser, livePages, launches, teardowns,
                   poolVars, storeVars, callVars>>

\* _handle_response (lines 76-84): a response the page observes carries the
\* x-ms-token header with value tok.
HandleResponse(tok) ==
    /\ livePages > 0
    /\ tok # ms_token
    /\ ms_token' = tok
    /\ UNCHANGED <<initialized, gate, gateQ, browser, livePages, life, launches,
                   teardowns, poolVars, storeVars, callVars>>

\* close, lines 180-183: the unlocked check, the lock, up to the await of
\* browser.close().
CloseCall(x) ==
    LET t == CloseTask(x) IN
    /\ life[t].pc = "idle"
    /\ IF ~initialized
         THEN /\ life' = [life EXCEPT ![t] = [pc |-> "done", outcome |-> "noop"]]
              /\ UNCHANGED <<gate, gateQ>>
         ELSE IF GateFree
           THEN /\ gate' = t
                /\ life' = [life EXCEPT ![t].pc = "closing"]
                /\ UNCHANGED gateQ
           ELSE /\ gateQ' = Append(gateQ, t)
                /\ life' = [life EXCEPT ![t].pc = "wait"]
                /\ UNCHANGED gate
    /\ UNCHANGED <<initialized, ms_token, browser, livePages, launches, teardowns,
                   poolVars, storeVars, callVars>>

\* close, lines 181-183, for a close that had to wait for the lock: the
\* flag is not read again.
CloseResume(x) ==
    LET t == CloseTask(x) IN
    /\ life[t].pc = "wait"
    /\ gate = t
    /\ life' = [life EXCEPT ![t].pc = "closing"]
    /\ UNCHANGED <<initialized, gate, gateQ, ms_token, browser, livePages, launches,
                   teardowns, poolVars, storeVars, callVars>>

\* close, lines 183-185: browser.close() has returned; playwright.stop()
\* is awaited.
CloseBrowser(x) ==
    LET t == CloseTask(x) IN
    /\ life[t].pc = "closing"
    /\ teardowns' = teardowns + 1
    /\ browser' = "closed"
    /\ livePages' = IF browser = "open" THEN livePages - 1 ELSE livePages
    /\ life' = [life EXCEPT ![t].pc = "stopping"]
    /\ UNCHANGED <<initialized, gate, gateQ, ms_token, launches, poolVars, storeVars, callVars>>

\* close, lines 185-187: playwright.stop() has returned; the flag is
\* cleared and the lock released.
CloseStop(x) ==
    LET t == CloseTask(x) IN
    /\ life[t].pc = "stopping"
    /\ initialized' = FALSE
    /\ life' = [life EXCEPT ![t] = [pc |-> "done", outcome |-> "closed"]]
    /\ gate' = GateNext
    /\ gateQ' = QueueNext
    /\ UNCHANGED <<ms_token, browser, livePages, launches, teardowns,
                   poolVars, storeVars, callVars>>

\* ------------------------------------------------- the upstream event stream
\* Texts are sequences of characters, so that "".join is concatenation.
Hel == <<"H", "e", "l">>
lo == <<"l", "o">>
Empty == << >>
\* A text that is no string but a JSON number, array or object that Python
\* takes for true.
NotAString == <<"<5>">>

\* One line of the response body.  prefix: the line starts with "data:".
\* The rest describes the text after the prefix, as far as the code looks:
\*   json        "blank" (nothing but spaces), "invalid" (not JSON), "array"
\*               (JSON, but no object) or "object";
\*   event_type  of the object (0: the key is missing);
\*   event_data  the object's event_data: "missing", "null", or a string that
\*               is "invalid" JSON, an "array" or an "object";
\*   conversation_id  of the event_data object (None: missing);
\*   message     of the event_data object: "missing", "null" or "object";
\*   content     of the message: "missing", or a string that is "invalid"
\*               JSON, an "array" or an "object";
\*   text        of the content object (Empty when missing, "" or another
\*               value Python takes for false; NotAString).
Line(prefix, json, event_type, event_data, conversation_id, message, content, text) ==
    [prefix |-> prefix, json |-> json, event_type |-> event_type,
     event_data |-> event_data, conversation_id |-> conversation_id,
     message |-> message, content |-> content, text |-> text]

RawLine == Line(FALSE, "blank", 0, "missing", None, "missing", "missing", Empty)
BlankData == Line(TRUE, "blank", 0, "missing", None, "missing", "missing", Empty)
BadJson == Line(TRUE, "invalid", 0, "missing", None, "missing", "missing", Empty)
ArrayJson == Line(TRUE, "array", 0, "missing", None, "missing", "missing", Empty)
OtherEvent == Line(TRUE, "object", 2003, "object", None, "missing", "missing", Empty)
\* ConversationCreated
Created(id) == Line(TRUE, "object", 2002, "object", id, "missing", "missing", Empty)
CreatedWith(event_data) == Line(TRUE, "object", 2002, event_data, None, "missing", "missing", Empty)
\* MessageDelta
Delta(text) == Line(TRUE, "object", 2001, "object", None, "object", "object", text)
DeltaWith(event_data, message, content) ==
    Line(TRUE, "object", 2001, event_data, None, message, content, Empty)

\* The well-formed events of the upstream protocol, and lines without the
\* data prefix.
EventLines ==
    {RawLine, OtherEvent, Created("42"), Created("43"), Delta(Hel), Delta(lo), Delta(Empty)}
\* Envelopes that are malformed one way or another.
MalformedLines ==
    {BlankData, BadJson, ArrayJson,
     CreatedWith("missing"), CreatedWith("null"), CreatedWith("invalid"),
     DeltaWith("object", "missing", "missing"), DeltaWith("object", "object", "invalid"),
     DeltaWith("object", "object", "array"), Delta(NotAString)}
AllLines == EventLines \cup MalformedLines

\* json.loads(s) of a string that is "invalid", an "array" or an "object";
\* of None ("null") it raises TypeError.  dict.get on what is no dict raises
\* AttributeError.  Of the two only JSONDecodeError is caught at lines
\* 154/290.  The outcome of reading one field: "ok" (an object to go on
\* with), "skip" (JSONDecodeError, caught) or "raise" (anything else).
LoadsObject(kind) ==
    CASE kind = "object" -> "ok"
      [] kind = "missing" -> "ok"
      [] kind = "invalid" -> "skip"
      [] OTHER -> "raise"

\* event_data.get("message", {}) and message_data.get("content", "{}").
GetMessage(kind) == IF kind = "null" THEN "raise" ELSE "ok"

\* The parse of one data line's envelope, lines 141-151 (and 274-284), given
\* the conversation id captured so far: what the try block does to it.
\*   out  "skip": the line is dropped (JSONDecodeError); "raise": an
\*        exception the handler does not catch; "ok": the block finished
\*   id   new_conversation_id after the block
\*   text delta_content (Empty: none)
Envelope(line, captured) ==
    LET skip == [out |-> "skip", id |-> captured, text |-> Empty]
        raise == [out |-> "raise", id |-> captured, text |-> Empty]
    IN
    IF line.json = "invalid" THEN skip
    ELSE IF line.json # "object" THEN raise
    ELSE IF line.event_type = 2002 /\ captured \in {None, ""}
      THEN CASE LoadsObject(line.event_data) = "skip" -> skip
             [] LoadsObject(line.event_data) = "raise" -> raise
             [] OTHER -> [out |-> "ok", text |-> Empty,
                          id |-> IF line.event_data = "missing" THEN None
                                 ELSE line.conversation_id]
    ELSE IF line.event_type = 2001
      THEN IF LoadsObject(line.event_data) # "ok" THEN
                [out |-> LoadsObject(line.event_data), id |-> captured, text |-> Empty]
           ELSE IF line.event_data = "missing" \/ line.message = "missing" THEN
                [out |-> "ok", id |-> captured, text |-> Empty]
           ELSE IF GetMessage(line.message) = "raise" THEN raise
           ELSE IF LoadsObject(line.content) # "ok" THEN
                [out |-> LoadsObject(line.content), id |-> captured, text |-> Empty]
           ELSE [out |-> "ok", id |-> captured,
                 text |-> IF line.content = "missing" THEN Empty ELSE line.text]
    ELSE [out |-> "ok", id |-> captured, text |-> Empty]

\* ------------------------------------------------------------ SessionManager
\* The conversation context store: a key/value store with a TTL
\* (app/services/session_manager.py).
SessionKeys == {"u1", "u2"}
Absent == "<absent>"

\* get_session(session_id) or {}, then .get("conversation_id", "0").
get_session(session_id) == IF store[session_id] = Absent THEN "0" ELSE store[session_id]

\* ------------------------------------------------------------ DoubaoProvider
KnownModel == "doubao-pro-chat"
\* settings.MODEL_MAPPING.get of a mapping that knows every name.
ResolvesAny(user_model) == "7338286299411103781"
\* settings.MODEL_MAPPING.get(user_model)
MODEL_MAPPING(user_model) ==
    IF user_model = KnownModel THEN "7338286299411103781" ELSE None

Msg(role, content) == [role |-> role, content |-> content]
Request(stream, model, user, messages) ==
    [stream |-> stream, model |-> model, user |-> user, messages |-> messages]
NoRequest == Request(FALSE, "", "", << >>)

\* create_chat_completion_chunk(request_id, model, content, finish_reason)
\* and DONE_CHUNK (app/utils/sse_utils.py).
Chunk(content, finish_reason) == [content |-> content, finish_reason |-> finish_reason]
DONE_CHUNK == [content |-> <<"[DONE]">>, finish_reason |-> "[DONE]"]

NoPayload == [messages |-> << >>, need_create_conversation |-> FALSE, conversation_id |-> "",
              bot_id |-> None]
NoUrl == [query |-> << >>, signed |-> << >>, a_bogus |-> ""]
NoResult == [kind |-> "none", status_code |-> 0, content |-> << >>]

\* A call slot with no call in it.  The locals of the call are gone when it
\* is over; its input and output stay until the slot is used again.
IdleCall ==
    [pc |-> "idle", req |-> NoRequest,
     conversation_id |-> "0", final_cookie |-> << >>, payload |-> NoPayload, url |-> NoUrl,
     status |-> 0, new_conversation_id |-> None, streamed_any_data |-> FALSE,
     full_content |-> << >>,
     \* history: what the call received, did and gave
     header |-> "", body |-> << >>, signs |-> 0, evals |-> 0, requests |-> 0, signResult |-> "none",
     written |-> << >>, out |-> << >>, result |-> NoResult, failure |-> "none"]

\* The call is over: its locals are dropped (the context it loaded stays,
\* as part of its input).
Over(rec) ==
    [rec EXCEPT !.pc = "done", !.final_cookie = << >>,
                !.payload = NoPayload, !.url = NoUrl, !.new_conversation_id = None,
                !.streamed_any_data = FALSE, !.full_content = << >>]

InitProvider ==
    /\ call = [c \in Calls |-> IdleCall]
    /\ started = 0

\* The text "msToken=" occurs in a field: the field is msToken, or its name
\* ends in msToken (line 47 looks for the text, not for a field).
NamesToken(name) == name \in {"msToken", "x_msToken"}
\* _get_dynamic_cookie (lines 37-54): without a token the cookie as it is;
\* else re.sub of msToken=[^;]+ (every occurrence of the text that has a
\* value of one character or more) if the text msToken= occurs at all, or the
\* token appended.  Cookies here neither start nor end with ";".
get_dynamic_cookie(base_cookie, latest_ms_token) ==
    IF ~TokenHeld(latest_ms_token) THEN base_cookie
    ELSE IF \E i \in DOMAIN base_cookie : NamesToken(base_cookie[i][1])
      THEN [i \in DOMAIN base_cookie |->
               IF NamesToken(base_cookie[i][1]) /\ base_cookie[i][2] # ""
               THEN <<base_cookie[i][1], latest_ms_token>> ELSE base_cookie[i]]
      ELSE Append(base_cookie, <<"msToken", latest_ms_token>>)

\* The first message with role user, 0 if none.
FirstUser(messages) ==
    LET users == {i \in DOMAIN messages : messages[i].role = "user"}
    IN IF users = {} THEN 0 ELSE CHOOSE i \in users : \A j \in users : i <= j
\* _prepare_payload, line 335: the last message with role user, 0 if none.
LastUser(messages) ==
    LET users == {i \in DOMAIN messages : messages[i].role = "user"}
    IN IF users = {} THEN 0 ELSE CHOOSE i \in users : \A j \in users : j <= i

\* A payload that asks for a new conversation whatever the context is.
PayloadAlwaysCreates(messages, bot_id, conversation_id) ==
    [messages |-> <<messages[LastUser(messages)].content>>,
     need_create_conversation |-> TRUE,
     conversation_id |-> conversation_id,
     bot_id |-> IF conversation_id # "0" THEN bot_id ELSE None]
\* _prepare_payload (lines 334-356), for a list with a user message.
prepare_payload(messages, bot_id, conversation_id) ==
    [messages |-> <<messages[LastUser(messages)].content>>,
     need_create_conversation |-> (conversation_id = "0"),
     conversation_id |-> conversation_id,
     bot_id |-> IF conversation_id # "0" THEN bot_id ELSE None]

\* The except handler of _non_stream_completion (lines 187-192).
NonStreamFail(rec, why) ==
    [Over(rec) EXCEPT !.failure = why,
                !.result = [kind |-> "error", status_code |-> 500,
                            content |-> <<"server_error", why>>]]

\* An except handler that yields the error chunk and forgets the end marker.
StreamFailNoMarker(rec, why) ==
    [Over(rec) EXCEPT !.failure = why,
                !.out = @ \o <<Chunk(<<"server_error", why>>, "stop")>>]
\* The except handler of _stream_generator (lines 314-320).
StreamFail(rec, why) ==
    [Over(rec) EXCEPT !.failure = why,
                !.out = @ \o <<Chunk(<<"server_error", why>>, "stop"), DONE_CHUNK>>]

Fail(rec, why) == IF rec.req.stream THEN StreamFail(rec, why) ELSE NonStreamFail(rec, why)

\* A provider that sends the request although get_signed_url returned None.
SignRefusedIgnored(rec) ==
    [rec EXCEPT !.signResult = "null", !.pc = "connecting", !.requests = @ + 1]
\* get_signed_url returned None: "if not signed_url: raise" (lines 111-112,
\* 241-242), caught by the handler of the call.
SignRefused(rec) == Fail([rec EXCEPT !.signResult = "null"], "sign")

\* get_signed_url, lines 147-159: the parameters of the query string.
base_params ==
    [k \in {"aid", "device_platform", "language", "pc_version", "pkg_type", "real_aid",
            "region", "samantha_web", "sys_region", "use-olympus-account", "version_code"}
     |-> CASE k = "aid" -> "497858" [] k = "device_platform" -> "web"
           [] k = "language" -> "zh" [] k = "pc_version" -> "2.41.0"
           [] k = "pkg_type" -> "release_version" [] k = "real_aid" -> "497858"
           [] k = "region" -> "CN" [] k = "samantha_web" -> "1"
           [] k = "sys_region" -> "CN" [] k = "use-olympus-account" -> "1"
           [] OTHER -> "20800"]
static_device_fingerprint ==
    [k \in {"device_id", "fp", "web_id", "tea_uuid"} |-> "cfg"]
\* dict.update: the right operand wins.
Update(d, e) == [k \in DOMAIN d \cup DOMAIN e |-> IF k \in DOMAIN e THEN e[k] ELSE d[k]]
final_params(params, token) ==
    Update(Update(params, static_device_fingerprint),
           [k \in {"web_tab_id", "msToken"} |-> IF k = "msToken" THEN token ELSE "uuid4"])
\* sorted() compares the keys by code point; this is that order of the keys
\* in use.
KeyOrder ==
    <<"aid", "device_id", "device_platform", "fp", "language", "msToken", "pc_version",
      "pkg_type", "real_aid", "region", "samantha_web", "sys_region", "tea_uuid",
      "use-olympus-account", "version_code", "web_id", "web_tab_id">>
\* The items of final_params as the dict holds them, in insertion order:
\* the caller's parameters, the fingerprint, the tab id, the token.
InsertionOrderParams(d) ==
    LET order == <<"aid", "device_platform", "language", "pc_version", "pkg_type",
                   "real_aid", "region", "samantha_web", "sys_region",
                   "use-olympus-account", "version_code", "device_id", "fp", "web_id",
                   "tea_uuid", "web_tab_id", "msToken">>
        keys == SelectSeq(order, LAMBDA k : k \in DOMAIN d)
    IN [i \in DOMAIN keys |-> <<keys[i], d[keys[i]]>>]
\* dict(sorted(final_params.items())), as the list of its items.
sorted_params(d) ==
    LET keys == SelectSeq(KeyOrder, LAMBDA k : k \in DOMAIN d)
    IN [i \in DOMAIN keys |-> <<keys[i], d[keys[i]]>>]
\* The value of a key in a query string.
QueryValue(query, key) ==
    IF \E i \in DOMAIN query : query[i][1] = key
    THEN query[CHOOSE i \in DOMAIN query : query[i][1] = key][2]
    ELSE None

\* A signer that does not look at its flag before it signs.
SignBodyUnchecked(rec) ==
    IF ~TokenHeld(ms_token)
      THEN [rec |-> SignRefused(rec), hold |-> FALSE]
    ELSE LET final_query_string == sorted_params(final_params(base_params, ms_token))
         IN [rec |-> [rec EXCEPT !.pc = "evaluating", !.evals = @ + 1,
                                 !.url = [query |-> final_query_string,
                                          signed |-> final_query_string,
                                          a_bogus |-> ""]],
             hold |-> TRUE]
\* get_signed_url (lines 140-163) from the moment the lock is held up to
\* the await of page.evaluate, and what the provider does with a call that
\* ended before it (lines 110-112 / 240-242, and the except handler).
\*   rec   the call afterwards
\*   hold  the lock is still held (page.evaluate is awaited)
SignBody(rec) ==
    IF ~initialized
      THEN [rec |-> Fail([rec EXCEPT !.signResult = "raised"], "uninitialized"),
            hold |-> FALSE]
    ELSE IF ~TokenHeld(ms_token)
      THEN [rec |-> SignRefused(rec), hold |-> FALSE]
    ELSE LET final_query_string == sorted_params(final_params(base_params, ms_token))
         IN [rec |-> [rec EXCEPT !.pc = "evaluating", !.evals = @ + 1,
                                 !.url = [query |-> final_query_string,
                                          signed |-> final_query_string,
                                          a_bogus |-> ""]],
             hold |-> TRUE]

\* A chat call arrives (chat_completion, lines 56-65) and runs to its first
\* suspension.  Lines 71-86 (198-216): the model is resolved and the
\* conversation context loaded.  Lines 89-110 (219-240): get_credential
\* (on the event loop nothing runs between its statements), the dynamic
\* cookie, the headers, the payload, and get_signed_url up to the wait for
\* the lock or the await of page.evaluate.
ChatStart(c, req) ==
    LET me == CallTask(c)
        rec == [IdleCall EXCEPT !.req = req]
        loaded == [rec EXCEPT !.conversation_id = get_session(req.user)]
        cookie == get_dynamic_cookie(CurrentCredential, ms_token)
        ready == [loaded EXCEPT !.final_cookie = cookie,
                                !.payload = prepare_payload(req.messages,
                                                MODEL_MAPPING(req.model), loaded.conversation_id),
                                !.signs = @ + 1]
    IN
    /\ call[c].pc = "idle"
    /\ \A d \in Calls : d < c => call[d].pc # "idle"    \* slots are taken lowest first
    /\ started < MaxCalls
    /\ started' = started + 1
    /\ IF MODEL_MAPPING(req.model) = None
         THEN /\ call' = [call EXCEPT ![c] =
                    IF req.stream
                    THEN [Over(rec) EXCEPT !.failure = "unknown_model",
                              !.out = <<Chunk(<<"unsupported_model">>, "stop"), DONE_CHUNK>>]
                    ELSE [Over(rec) EXCEPT !.failure = "unknown_model",
                              !.result = [kind |-> "raised", status_code |-> 400,
                                          content |-> <<"unsupported_model">>]]]
              /\ UNCHANGED <<index, lockCount, handed, gate, gateQ>>
         ELSE /\ LockFree
              /\ index' = Rotated
              /\ lockCount' = lockCount + 1
              /\ handed' = Handed(lockCount, CurrentCredential)
              /\ IF ms_token = Unset
                   THEN /\ call' = [call EXCEPT ![c] = Fail(loaded, "cookie")]
                        /\ UNCHANGED <<gate, gateQ>>
                   ELSE IF LastUser(req.messages) = 0
                     THEN /\ call' = [call EXCEPT ![c] = Fail(loaded, "payload")]
                          /\ UNCHANGED <<gate, gateQ>>
                     ELSE IF GateFree
                       THEN /\ call' = [call EXCEPT ![c] = SignBody(ready).rec]
                            /\ gate' = IF SignBody(ready).hold THEN me ELSE gate
                            /\ UNCHANGED gateQ
                       ELSE /\ call' = [call EXCEPT ![c] = [ready EXCEPT !.pc = "sign_wait"]]
                            /\ gateQ' = Append(gateQ, me)
                            /\ UNCHANGED gate
    /\ UNCHANGED <<credentials, lock, frame, initialized, ms_token, browser, livePages,
                   life, launches, teardowns, storeVars>>

\* A signer that takes and gives back its lock by hand around page.evaluate
\* only: a sign that ends before it (not initialized, no token) keeps the lock.
SignResumeLeaks(c) ==
    /\ call[c].pc = "sign_wait"
    /\ gate = CallTask(c)
    /\ call' = [call EXCEPT ![c] = SignBody(call[c]).rec]
    /\ UNCHANGED <<gate, gateQ>>
    /\ UNCHANGED <<initialized, ms_token, browser, livePages, life, launches, teardowns,
                   poolVars, storeVars, started>>
\* get_signed_url for a call that had to wait for the lock.
SignResume(c) ==
    /\ call[c].pc = "sign_wait"
    /\ gate = CallTask(c)
    /\ call' = [call EXCEPT ![c] = SignBody(call[c]).rec]
    /\ IF SignBody(call[c]).hold
         THEN UNCHANGED <<gate, gateQ>>
         ELSE gate' = GateNext /\ gateQ' = QueueNext
    /\ UNCHANGED <<initialized, ms_token, browser, livePages, life, launches, teardowns,
                   poolVars, storeVars, started>>

\* What page.evaluate of frontierSign may give: an object with the
\* signature under a_bogus or under X-Bogus, something else, or an exception.
EvalResults == {"a_bogus", "X-Bogus", "other", "raise"}

\* A signer that keeps its lock after page.evaluate, while the provider
\* sends the request and reads the response.
SignEvaluateKeepsLock(c, res) ==
    /\ call[c].pc = "evaluating"
    /\ call' = [call EXCEPT ![c] =
          IF res \in {"a_bogus", "X-Bogus"}
          THEN [call[c] EXCEPT !.pc = "connecting", !.signResult = "url",
                               !.url.a_bogus = "bogus", !.requests = @ + 1]
          ELSE SignRefused(call[c])]
    /\ UNCHANGED <<gate, gateQ, initialized, ms_token, browser, livePages, life, launches,
                   teardowns, poolVars, storeVars, started>>
\* get_signed_url, lines 163-177: page.evaluate is over and the lock
\* released.  With a signature the provider sends the request (lines
\* 116/249); without, get_signed_url returned None and the call fails.
SignEvaluate(c, res) ==
    /\ call[c].pc = "evaluating"
    /\ gate' = GateNext
    /\ gateQ' = QueueNext
    /\ call' = [call EXCEPT ![c] =
          IF res \in {"a_bogus", "X-Bogus"}
          THEN [call[c] EXCEPT !.pc = "connecting", !.signResult = "url",
                               !.url.a_bogus = "bogus", !.requests = @ + 1]
          ELSE SignRefused(call[c])]
    /\ UNCHANGED <<initialized, ms_token, browser, livePages, life, launches, teardowns,
                   poolVars, storeVars, started>>

\* What the upstream may answer: a status line with or without the
\* x-ms-token header ("": no header), or no answer at all.
Response(status, token) == [kind |-> "response", status |-> status, token |-> token]
ConnectError == [kind |-> "error", status |-> 0, token |-> ""]
\* httpx.Response.raise_for_status raises unless the status is a 2xx.
RaisesForStatus(status) == ~(200 <= status /\ status <= 299)

\* A provider that looks at the status first and stores the token of an
\* accepted response only.
UpstreamRespondStatusFirst(c, resp) ==
    LET rec == [call[c] EXCEPT !.status = resp.status, !.header = resp.token]
        rejected == resp.status # 200 /\ RaisesForStatus(resp.status)
    IN
    /\ call[c].pc = "connecting"
    /\ ms_token' = IF resp.kind = "response" /\ resp.token # "" /\ ~rejected
                   THEN resp.token ELSE ms_token
    /\ call' = [call EXCEPT ![c] =
          IF resp.kind = "error" THEN Fail(rec, "connect")
          ELSE IF rejected THEN Fail(rec, "status")
          ELSE [rec EXCEPT !.pc = "reading"]]
    /\ UNCHANGED <<initialized, gate, gateQ, browser, livePages, life, launches, teardowns,
                   poolVars, storeVars, started>>
\* client.stream(...) has the response headers, or raised.  Lines 117-128
\* (250-261): the token of the x-ms-token header is stored
\* (update_ms_token), then the status checked.
UpstreamRespond(c, resp) ==
    LET rec == [call[c] EXCEPT !.status = resp.status, !.header = resp.token] IN
    /\ call[c].pc = "connecting"
    /\ ms_token' = IF resp.kind = "response" /\ resp.token # "" THEN resp.token ELSE ms_token
    /\ call' = [call EXCEPT ![c] =
          IF resp.kind = "error" THEN Fail(rec, "connect")
          ELSE IF resp.status # 200 /\ RaisesForStatus(resp.status) THEN Fail(rec, "status")
          ELSE [rec EXCEPT !.pc = "reading"]]
    /\ UNCHANGED <<initialized, gate, gateQ, browser, livePages, life, launches, teardowns,
                   poolVars, storeVars, started>>

\* One turn of the loop of _non_stream_completion, lines 130-156.
NonStreamLine(rec, line) ==
    LET r == [rec EXCEPT !.body = Append(@, line), !.streamed_any_data = TRUE]
        e == Envelope(line, rec.new_conversation_id)
    IN
    IF ~line.prefix \/ line.json = "blank" THEN r
    ELSE CASE e.out = "skip" -> r
           [] e.out = "raise" -> NonStreamFail(r, "parse")
           [] OTHER -> [r EXCEPT !.new_conversation_id = e.id,
                                 !.full_content = IF e.text # Empty THEN Append(@, e.text) ELSE @]

\* A loop that reads the line and yields nothing.
StreamLineMute(rec, line) == [rec EXCEPT !.body = Append(@, line), !.streamed_any_data = TRUE]
\* One turn of the loop of _stream_generator, lines 263-292.
StreamLine(rec, line) ==
    LET r == [rec EXCEPT !.body = Append(@, line), !.streamed_any_data = TRUE]
        e == Envelope(line, rec.new_conversation_id)
    IN
    IF ~line.prefix \/ line.json = "blank" THEN r
    ELSE CASE e.out = "skip" -> r
           [] e.out = "raise" -> StreamFail(r, "parse")
           [] OTHER -> [r EXCEPT !.new_conversation_id = e.id,
                                 !.out = IF e.text # Empty THEN Append(@, Chunk(e.text, None)) ELSE @]

\* response.aiter_lines() yields the next line of the body.
UpstreamLine(c, line, max) ==
    /\ call[c].pc = "reading"
    /\ Len(call[c].body) < max
    /\ call' = [call EXCEPT ![c] =
          IF call[c].req.stream THEN StreamLine(call[c], line) ELSE NonStreamLine(call[c], line)]
    /\ UNCHANGED <<poolVars, signerVars, storeVars, started>>

\* The body breaks off: aiter_lines raises a transport error.
UpstreamBreak(c) ==
    /\ call[c].pc = "reading"
    /\ call' = [call EXCEPT ![c] = Fail(call[c], "read")]
    /\ UNCHANGED <<poolVars, signerVars, storeVars, started>>

\* "".join(full_content) raises TypeError unless every fragment is a string.
Joinable(parts) == \A i \in DOMAIN parts : parts[i] # NotAString
\* "".join(full_content), of strings
Join(parts) ==
    LET RECURSIVE J(_)
        J(i) == IF i > Len(parts) THEN << >> ELSE parts[i] \o J(i + 1)
    IN J(1)

\* The condition without is_new_conversation.
PersistsAnyCall(rec) == rec.new_conversation_id \notin {None, ""}
\* Lines 162 / 306: is_new_conversation and new_conversation_id.
Persists(rec) == rec.conversation_id = "0" /\ rec.new_conversation_id \notin {None, ""}

\* _non_stream_completion after the loop, lines 158-185.
NonStreamEnd(rec) ==
    LET saved == [rec EXCEPT !.written =
                      IF Persists(rec) THEN Append(@, rec.new_conversation_id) ELSE @]
    IN
    IF ~rec.streamed_any_data THEN NonStreamFail(rec, "silent")
    ELSE IF ~Joinable(rec.full_content) THEN NonStreamFail(saved, "join")
    ELSE [Over(saved) EXCEPT !.result = [kind |-> "completion", status_code |-> 200,
                                         content |-> Join(rec.full_content)]]

\* _stream_generator after the loop, lines 295-312.
StreamEnd(rec) ==
    IF ~rec.streamed_any_data
    THEN [Over(rec) EXCEPT !.failure = "silent",
                           !.out = @ \o <<Chunk(<<"silent">>, "stop"), DONE_CHUNK>>]
    ELSE [Over(rec) EXCEPT
             !.written = IF Persists(rec) THEN Append(@, rec.new_conversation_id) ELSE @,
             !.out = @ \o <<Chunk(Empty, "stop"), DONE_CHUNK>>]

\* The body ends.  What the call wrote to the store (update_session) is
\* the last element of its written.
UpstreamEnd(c) ==
    LET rec == IF call[c].req.stream THEN StreamEnd(call[c]) ELSE NonStreamEnd(call[c])
        k == rec.req.user
    IN
    /\ call[c].pc = "reading"
    /\ call' = [call EXCEPT ![c] = rec]
    /\ IF Len(rec.written) > Len(call[c].written)
         THEN /\ store' = [store EXCEPT ![k] = rec.written[Len(rec.written)]]
              /\ writeLog' = [writeLog EXCEPT ![k] = Append(@, rec.written[Len(rec.written)])]
         ELSE UNCHANGED <<store, writeLog>>
    /\ UNCHANGED <<poolVars, signerVars, started>>

\* The HTTP status the caller of chat_completion gets (lines 56-65): a
\* streaming call is answered with StreamingResponse(generator), status 200,
\* before the generator runs; a buffered call with the JSONResponse returned
\* or the HTTPException raised.
ResponseStatus(rec) == IF rec.req.stream THEN 200 ELSE rec.result.status_code

\* The response went to the caller; the slot is free for the next call.
ChatReset(c) ==
    /\ call[c].pc = "done"
    /\ call' = [call EXCEPT ![c] = IdleCall]
    /\ UNCHANGED <<poolVars, signerVars, storeVars, started>>

\* ---------------------------------------------------------- specifications
InitStore ==
    /\ store = [k \in SessionKeys |-> Absent]
    /\ writeLog = [k \in SessionKeys |-> << >>]

\* The state after construction.
Init == InitPoolOf(2) /\ InitSigner /\ InitStore /\ InitProvider

\* The credential pool alone, of any size, with threads calling it.
InitPool == (\E k \in 1..MaxPool : InitPoolOf(k)) /\ InitSigner /\ InitStore /\ InitProvider

NextPool ==
    \/ \E t \in Threads : ThreadCall(t)
    \/ \E t \in Threads : GetCredLock(t)
    \/ \E t \in Threads : GetCredRead(t)
    \/ \E t \in Threads : GetCredAdvance(t)

SpecPool == InitPool /\ [][NextPool]_vars

\* The whole service: concurrent chat calls, the signer's lifecycle, the
\* page observing responses.
MainRequests == {Request(stream, KnownModel, "u1", <<Msg("user", "hi")>>) : stream \in BOOLEAN}
MainLines == {Created("42"), Delta(Hel)}
MainResponses == {Response(200, ""), Response(200, "T2"), Response(500, ""), ConnectError}
MainTokens == {"", "T1"}

Next ==
    \/ \E c \in Calls, req \in MainRequests : ChatStart(c, req)
    \/ \E c \in Calls : SignResume(c)
    \/ \E c \in Calls, res \in EvalResults : SignEvaluate(c, res)
    \/ \E c \in Calls, resp \in MainResponses : UpstreamRespond(c, resp)
    \/ \E c \in Calls, line \in MainLines : UpstreamLine(c, line, MaxConcLines)
    \/ \E c \in Calls : UpstreamBreak(c)
    \/ \E c \in Calls : UpstreamEnd(c)
    \/ \E i \in Inits : InitCall(i)
    \/ \E i \in Inits : InitResume(i)
    \/ \E i \in Inits, ok \in BOOLEAN : InitLaunch(i, ok)
    \/ \E i \in Inits, ok \in BOOLEAN : InitLoad(i, ok)
    \/ \E i \in Inits : InitFinish(i)
    \/ \E x \in Closes : CloseCall(x)
    \/ \E x \in Closes : CloseResume(x)
    \/ \E x \in Closes : CloseBrowser(x)
    \/ \E x \in Closes : CloseStop(x)
    \/ \E tok \in MainTokens : HandleResponse(tok)

Spec == Init /\ [][Next]_vars

\* The lock of the signer under contention: concurrent chat calls, concurrent
\* initializers and closes, the page observing a token; every upstream
\* request fails to connect, so that a call is over once it is signed.
GateRequests == {Request(TRUE, KnownModel, "u1", <<Msg("user", "hi")>>)}

NextGate ==
    \/ \E c \in Calls, req \in GateRequests : ChatStart(c, req)
    \/ \E c \in Calls : SignResume(c)
    \/ \E c \in Calls, res \in EvalResults : SignEvaluate(c, res)
    \/ \E c \in Calls, resp \in {ConnectError} : UpstreamRespond(c, resp)
    \/ \E i \in Inits : InitCall(i)
    \/ \E i \in Inits : InitResume(i)
    \/ \E i \in Inits, ok \in BOOLEAN : InitLaunch(i, ok)
    \/ \E i \in Inits, ok \in BOOLEAN : InitLoad(i, ok)
    \/ \E i \in Inits : InitFinish(i)
    \/ \E x \in Closes : CloseCall(x)
    \/ \E x \in Closes : CloseResume(x)
    \/ \E x \in Closes : CloseBrowser(x)
    \/ \E x \in Closes : CloseStop(x)
    \/ \E tok \in {"T1"} : HandleResponse(tok)

SpecGate == Init /\ [][NextGate]_vars

\* One chat call on its own, with every kind of request and of upstream
\* answer, against a signer in each condition initialize can leave it in,
\* while the page goes on observing tokens.
\* initialize returned: the flag is set; tok is the token observed by then.
SignerUp(tok) ==
    /\ initialized = TRUE
    /\ gate = Nobody
    /\ gateQ = << >>
    /\ ms_token = tok
    /\ browser = "open"
    /\ livePages = 1
    /\ life = [t \in LifeTasks |->
                 IF t = InitTask(1) THEN [pc |-> "done", outcome |-> "ok"] ELSE NoLife]
    /\ launches = 1
    /\ teardowns = 0
\* initialize raised after the launch (navigation timeout): the flag is not set.
SignerFailed(tok) ==
    /\ initialized = FALSE
    /\ gate = Nobody
    /\ gateQ = << >>
    /\ ms_token = tok
    /\ browser = "open"
    /\ livePages = 1
    /\ life = [t \in LifeTasks |->
                 IF t = InitTask(1) THEN [pc |-> "done", outcome |-> "failed"] ELSE NoLife]
    /\ launches = 1
    /\ teardowns = 0
\* The store holds a conversation id for the first key, or nothing.
InitStoreWith(id) ==
    /\ store = [k \in SessionKeys |-> IF k = "u1" THEN id ELSE Absent]
    /\ writeLog = [k \in SessionKeys |-> IF k = "u1" /\ id # Absent THEN <<id>> ELSE << >>]

InitTranslate ==
    /\ InitPoolOf(2)
    /\ \/ InitSigner
       \/ \E tok \in {None, "T1"} : SignerUp(tok)
       \/ SignerFailed("T1")
    /\ \E id \in {Absent, "41"} : InitStoreWith(id)
    /\ InitProvider

TranslateRequests ==
    {Request(stream, model, "u1", messages) :
        stream \in BOOLEAN, model \in {KnownModel, "gpt-4"},
        messages \in {<<Msg("user", "hi")>>, <<Msg("system", "be brief")>>}}
TranslateResponses == {Response(200, ""), Response(201, ""), Response(500, ""), ConnectError}

\* A chat call arrives while no other is in the service.
ChatAlone(c, req) == (\A d \in Calls : call[d].pc = "idle") /\ ChatStart(c, req)

NextTranslate ==
    \/ \E c \in Calls, req \in TranslateRequests : ChatAlone(c, req)
    \/ \E c \in Calls, res \in EvalResults : SignEvaluate(c, res)
    \/ \E c \in Calls, resp \in TranslateResponses : UpstreamRespond(c, resp)
    \/ \E c \in Calls, line \in AllLines : UpstreamLine(c, line, MaxLines)
    \/ \E c \in Calls : UpstreamBreak(c)
    \/ \E c \in Calls : UpstreamEnd(c)
    \/ \E tok \in MainTokens : HandleResponse(tok)

SpecTranslate == InitTranslate /\ [][NextTranslate]_vars

\* The conversation context over several turns of one session key, within
\* the TTL of its entry: calls in both slots, a slot used again when its call
\* is over, against a signer that is up and holds a token.
InitStoreSpec == InitPoolOf(2) /\ SignerUp("T1") /\ InitStore /\ InitProvider
StoreLines == {Created("42"), Created("43")}
StoreResponses == {Response(200, ""), Response(500, "")}

NextStore ==
    \/ \E c \in Calls, req \in MainRequests : ChatStart(c, req)
    \/ \E c \in Calls : SignResume(c)
    \/ \E c \in Calls, res \in {"a_bogus", "raise"} : SignEvaluate(c, res)
    \/ \E c \in Calls, resp \in StoreResponses : UpstreamRespond(c, resp)
    \/ \E c \in Calls, line \in StoreLines : UpstreamLine(c, line, MaxConcLines)
    \/ \E c \in Calls : UpstreamEnd(c)
    \/ \E c \in Calls : ChatReset(c)

SpecStore == InitStoreSpec /\ [][NextStore]_vars

\* The lock under the scheduling of the event loop, from a signer that is
\* up: concurrent chat calls, closes and initializations after them, the
\* page observing a token.  A task that was handed the lock runs
\* (asyncio.Lock wakes its first waiter), every page.evaluate returns or
\* raises, and the awaits of initialize and close end (page.goto and
\* wait_for_function carry timeouts, lines 109 and 120; the sleep of line
\* 129 is ten seconds).  Arrivals and upstream answers are left open.
FairEvalResults == {"a_bogus", "raise"}

NextGateFair ==
    \/ \E c \in Calls, req \in GateRequests : ChatStart(c, req)
    \/ \E c \in Calls : SignResume(c)
    \/ \E c \in Calls, res \in FairEvalResults : SignEvaluate(c, res)
    \/ \E c \in Calls, resp \in {ConnectError} : UpstreamRespond(c, resp)
    \/ \E i \in Inits : InitCall(i)
    \/ \E i \in Inits : InitResume(i)
    \/ \E i \in Inits, ok \in BOOLEAN : InitLaunch(i, ok)
    \/ \E i \in Inits, ok \in BOOLEAN : InitLoad(i, ok)
    \/ \E i \in Inits : InitFinish(i)
    \/ \E x \in Closes : CloseCall(x)
    \/ \E x \in Closes : CloseResume(x)
    \/ \E x \in Closes : CloseBrowser(x)
    \/ \E x \in Closes : CloseStop(x)
    \/ \E tok \in {"T1"} : HandleResponse(tok)

FairSigner ==
    /\ \A c \in Calls : WF_vars(SignResume(c))
    /\ \A c \in Calls : WF_vars(\E res \in FairEvalResults : SignEvaluate(c, res))
    /\ \A i \in Inits : WF_vars(InitResume(i))
    /\ \A i \in Inits : WF_vars(\E ok \in BOOLEAN : InitLaunch(i, ok))
    /\ \A i \in Inits : WF_vars(\E ok \in BOOLEAN : InitLoad(i, ok))
    /\ \A i \in Inits : WF_vars(InitFinish(i))
    /\ \A x \in Closes : WF_vars(CloseResume(x))
    /\ \A x \in Closes : WF_vars(CloseBrowser(x))
    /\ \A x \in Closes : WF_vars(CloseStop(x))

SpecGateFair == InitStoreSpec /\ [][NextGateFair]_vars /\ FairSigner

\* Chat calls of both kinds against a signer that goes down and comes up
\* again: closes, initializations that succeed or fail, the page observing
\* a token; every upstream request fails to connect.
NextDown ==
    \/ \E c \in Calls, req \in MainRequests : ChatStart(c, req)
    \/ \E c \in Calls : SignResume(c)
    \/ \E c \in Calls, res \in {"a_bogus"} : SignEvaluate(c, res)
    \/ \E c \in Calls, resp \in {ConnectError} : UpstreamRespond(c, resp)
    \/ \E i \in Inits : InitCall(i)
    \/ \E i \in Inits : InitResume(i)
    \/ \E i \in Inits, ok \in BOOLEAN : InitLaunch(i, ok)
    \/ \E i \in Inits, ok \in BOOLEAN : InitLoad(i, ok)
    \/ \E i \in Inits : InitFinish(i)
    \/ \E x \in Closes : CloseCall(x)
    \/ \E x \in Closes : CloseResume(x)
    \/ \E x \in Closes : CloseBrowser(x)
    \/ \E x \in Closes : CloseStop(x)
    \/ \E tok \in {"T1"} : HandleResponse(tok)

SpecDown == InitStoreSpec /\ [][NextDown]_vars

\* The cookie builder over raw cookies of every shape, one call at a time:
\* pools drawn from a jar of cookies without a token field, with one (first,
\* in the middle, with an empty value) and with a field whose name ends in
\* msToken; the token changes with the upstream's answers.
CookieJar ==
    { << <<"sid", "1">> >>,
      << <<"msToken", "OLD">>, <<"sid", "2">> >>,
      << <<"sid", "3">>, <<"msToken", "OLD">>, <<"uid", "9">> >>,
      << <<"msToken", "">>, <<"sid", "4">> >>,
      << <<"x_msToken", "abc">>, <<"sid", "5">> >> }
\* CredentialManager.__init__ with the given pool.
InitPoolWith(pool) ==
    /\ credentials = pool
    /\ index = 0
    /\ lock = Nobody
    /\ frame = [t \in Threads |-> NoFrame]
    /\ lockCount = 0
    /\ handed = << >>
InitCookie ==
    /\ \E k \in 1..MaxPool : \E pool \in [1..k -> CookieJar] : InitPoolWith(pool)
    /\ \E tok \in {None, "T1"} : SignerUp(tok)
    /\ InitStore
    /\ InitProvider
CookieResponses == {Response(200, ""), Response(200, "T2"), ConnectError}

NextCookie ==
    \/ \E c \in Calls, req \in GateRequests : ChatAlone(c, req)
    \/ \E c \in Calls, res \in {"a_bogus", "raise"} : SignEvaluate(c, res)
    \/ \E c \in Calls, resp \in CookieResponses : UpstreamRespond(c, resp)
    \/ \E c \in Calls : UpstreamEnd(c)
    \/ \E c \in Calls : ChatReset(c)

SpecCookie == InitCookie /\ [][NextCookie]_vars

\* The capture of the conversation id: one call on either path, from the
\* sentinel or from a stored id, whose 200 response carries
\* ConversationCreated events with an id, with an empty id, or unreadable.
InitCapture ==
    /\ InitPoolOf(2)
    /\ SignerUp("T1")
    /\ \E id \in {Absent, "41"} : InitStoreWith(id)
    /\ InitProvider
CaptureLines == {Created(""), Created("42"), Created("43"), CreatedWith("invalid"), Delta(Hel)}

NextCapture ==
    \/ \E c \in Calls, req \in MainRequests : ChatAlone(c, req)
    \/ \E c \in Calls, res \in {"a_bogus"} : SignEvaluate(c, res)
    \/ \E c \in Calls, resp \in {Response(200, "")} : UpstreamRespond(c, resp)
    \/ \E c \in Calls, line \in CaptureLines : UpstreamLine(c, line, MaxLines)
    \/ \E c \in Calls : UpstreamEnd(c)

SpecCapture == InitCapture /\ [][NextCapture]_vars

\* The signing token under its writers: concurrent chat calls whose
\* responses, accepted or rejected, carry a new token or none, the page
\* observing tokens, and the signer closed and initialized again.
InitToken == InitPoolOf(2) /\ SignerUp("T1") /\ InitStore /\ InitProvider
TokenResponses == {Response(200, "T2"), Response(500, "T3")}

NextToken ==
    \/ \E c \in Calls, req \in GateRequests : ChatStart(c, req)
    \/ \E c \in Calls : SignResume(c)
    \/ \E c \in Calls, res \in {"a_bogus"} : SignEvaluate(c, res)
    \/ \E c \in Calls, resp \in TokenResponses : UpstreamRespond(c, resp)
    \/ \E i \in Inits : InitCall(i)
    \/ \E i \in Inits : InitResume(i)
    \/ \E i \in Inits, ok \in BOOLEAN : InitLaunch(i, ok)
    \/ \E i \in Inits, ok \in BOOLEAN : InitLoad(i, ok)
    \/ \E i \in Inits : InitFinish(i)
    \/ \E x \in Closes : CloseCall(x)
    \/ \E x \in Closes : CloseResume(x)
    \/ \E x \in Closes : CloseBrowser(x)
    \/ \E x \in Closes : CloseStop(x)
    \/ \E tok \in {"T4"} : HandleResponse(tok)

SpecToken == InitToken /\ [][NextToken]_vars

\* The payload of a request with a history: one call on either path whose
\* message list has up to MaxMessages messages of any roles in any order;
\* the content of a message tells its place in the list.
Roles == {"user", "assistant", "system"}
MessageLists ==
    UNION {{[i \in 1..n |-> Msg(roles[i], "m" \o ToString(i))] : roles \in [1..n -> Roles]} :
              n \in 1..MaxMessages}
PayloadRequests ==
    {Request(stream, KnownModel, "u1", messages) :
        stream \in BOOLEAN, messages \in MessageLists}

NextPayload ==
    \/ \E c \in Calls, req \in PayloadRequests : ChatAlone(c, req)
    \/ \E c \in Calls, res \in {"a_bogus", "other"} : SignEvaluate(c, res)
    \/ \E c \in Calls, resp \in {Response(200, ""), ConnectError} : UpstreamRespond(c, resp)
    \/ \E c \in Calls : UpstreamEnd(c)

SpecPayload == InitStoreSpec /\ [][NextPayload]_vars

\* The lifecycle of the signer alone: calls of initialize and of close in
\* any order and overlap, while the page observes a token.
NextLife ==
    \/ \E i \in Inits : InitCall(i)
    \/ \E i \in Inits : InitResume(i)
    \/ \E i \in Inits, ok \in BOOLEAN : InitLaunch(i, ok)
    \/ \E i \in Inits, ok \in BOOLEAN : InitLoad(i, ok)
    \/ \E i \in Inits : InitFinish(i)
    \/ \E x \in Closers : CloseCall(x)
    \/ \E x \in Closers : CloseResume(x)
    \/ \E x \in Closers : CloseBrowser(x)
    \/ \E x \in Closers : CloseStop(x)
    \/ \E tok \in {"T1"} : HandleResponse(tok)

SpecLife == Init /\ [][NextLife]_vars

\* ------------------------------------------------------------------ claims
\* The number of acquisitions that returned cred.
Times(cred) == Cardinality({j \in DOMAIN handed : handed[j] = cred})

\* C1: for a pool of k credentials and any interleaving of the callers of
\* get_credential, the j-th acquisition to take the pool lock (counted from
\* 0) returns credentials[j mod k]; with k > 1 two consecutive acquisitions
\* never get the same credential, no index is skipped, and once all N
\* acquisitions have returned each credential was returned floor(N/k) or
\* ceil(N/k) times.
C1_RoundRobin ==
    LET k == Len(credentials) IN
    /\ \A j \in DOMAIN handed : handed[j] = credentials[((j - 1) % k) + 1]
    /\ \A j \in DOMAIN handed :
          (k > 1 /\ j + 1 \in DOMAIN handed) => handed[j] # handed[j + 1]
    /\ DOMAIN handed = 1..lockCount =>
          \A i \in 1..k :
              Times(credentials[i]) \in {lockCount \div k, (lockCount + k - 1) \div k}

\* The rotation of a pool of three has wrapped around while a thread waits
\* for the lock another one holds.
C1_Wrapped ==
    /\ Len(credentials) = 3
    /\ 4 \in DOMAIN handed
    /\ \E t \in Threads : frame[t].pc = "lock" /\ lock # Nobody

\* The tasks inside the body of an "async with self._lock" block.
InBody ==
    {CallTask(c) : c \in {d \in Calls : call[d].pc = "evaluating"}}
        \cup {t \in LifeTasks : life[t].pc \in InitBodyPcs \cup CloseBodyPcs}

\* C2: in every reachable state at most one of initialize, get_signed_url
\* and close is executing its body: no two calls evaluate the signing
\* function at once, and no evaluation overlaps an initialize or a close in
\* progress.
C2_OneInBody == Cardinality(InBody) <= 1 /\ \A t \in InBody : gate = t

\* One call evaluates the signing function while another call and a close
\* wait for the lock.
C2_Contended ==
    \E c, d \in Calls :
        /\ call[c].pc = "evaluating"
        /\ call[d].pc = "sign_wait"
        /\ \E x \in Closes : life[CloseTask(x)].pc = "wait"

\* The events of the upstream protocol, well formed.
ProtocolEvents == EventLines \ {RawLine}
\* The delta chunks of the MessageDelta events of a body, in order: of all
\* of them, or of those with a text that is not empty.
DeltaChunks(body, all) ==
    LET RECURSIVE D(_)
        D(i) == IF i > Len(body) THEN << >>
                ELSE IF body[i].event_type = 2001 /\ (all \/ body[i].text # Empty)
                  THEN <<Chunk(body[i].text, None)>> \o D(i + 1)
                  ELSE D(i + 1)
    IN D(1)
\* A streaming call is over that got a 200 response whose body, a sequence of
\* protocol events, arrived whole.
Streamed200(c) ==
    /\ call[c].pc = "done"
    /\ call[c].req.stream
    /\ call[c].status = 200
    /\ call[c].failure # "read"
    /\ \A i \in DOMAIN call[c].body : call[c].body[i] \in ProtocolEvents

\* C3 (as amended): on the streaming path, for a 200 response whose body is a
\* non-empty finite sequence of protocol events, the output is one delta
\* chunk per MessageDelta event with a non-empty text, carrying that text, in
\* arrival order, then exactly one terminal empty-delta chunk, then exactly
\* one end-of-stream marker, and nothing else.
C3_StreamOrder ==
    \A c \in Calls :
        (Streamed200(c) /\ call[c].body # << >>) =>
            call[c].out = DeltaChunks(call[c].body, FALSE)
                              \o <<Chunk(Empty, "stop"), DONE_CHUNK>>

\* ConversationCreated("42"), MessageDelta("Hel"), MessageDelta("lo") gave
\* the two deltas, the terminal chunk and the marker.
C3_HelLo ==
    \E c \in Calls :
        /\ Streamed200(c)
        /\ call[c].body = <<Created("42"), Delta(Hel), Delta(lo)>>
        /\ call[c].out = <<Chunk(Hel, None), Chunk(lo, None), Chunk(Empty, "stop"), DONE_CHUNK>>

\* C3 (as claimed): for any finite sequence of events, the empty one included,
\* one delta chunk per MessageDelta event, then the terminal chunk and the
\* marker.
C3_EveryDeltaEveryBody ==
    \A c \in Calls :
        Streamed200(c) =>
            call[c].out = DeltaChunks(call[c].body, TRUE)
                              \o <<Chunk(Empty, "stop"), DONE_CHUNK>>

\* The call reached the body of a response (its status was accepted).
ReachedBody(rec) ==
    rec.pc = "done" /\ rec.requests = 1 /\ rec.failure \notin {"connect", "status"}
\* What the other path makes of the response a finished call got: the same
\* context and status, the same lines in the same order and, where the
\* finished call saw the body break off, the same break.
OtherPath(rec) ==
    LET start == [IdleCall EXCEPT !.pc = "reading",
                                  !.req = [rec.req EXCEPT !.stream = ~rec.req.stream],
                                  !.conversation_id = rec.conversation_id,
                                  !.status = rec.status]
        RECURSIVE Run(_, _)
        Run(r, i) ==
            IF r.pc = "done" THEN r
            ELSE IF i > Len(rec.body)
              THEN IF rec.failure = "read" THEN Fail(r, "read")
                   ELSE IF r.req.stream THEN StreamEnd(r) ELSE NonStreamEnd(r)
            ELSE Run(IF r.req.stream THEN StreamLine(r, rec.body[i])
                     ELSE NonStreamLine(r, rec.body[i]), i + 1)
    IN Run(start, 1)
\* The texts of the delta chunks of a stream, concatenated in order.
DeltaText(out) ==
    LET RECURSIVE T(_)
        T(i) == IF i > Len(out) THEN << >>
                ELSE IF out[i].finish_reason = None THEN out[i].content \o T(i + 1)
                ELSE T(i + 1)
    IN T(1)

\* C4: for every upstream event sequence the buffered and the streaming path
\* agree on whether the call succeeds or fails and on what is written to the
\* context store, and where the call succeeds the buffered path returns one
\* completion whose content is the concatenation, in order, of the delta
\* texts the streaming path emits.
C4_PathsAgree ==
    \A c \in Calls :
        ReachedBody(call[c]) =>
            LET other == OtherPath(call[c])
                streaming == IF call[c].req.stream THEN call[c] ELSE other
                buffered == IF call[c].req.stream THEN other ELSE call[c]
            IN /\ (buffered.failure = "none") = (streaming.failure = "none")
               /\ buffered.written = streaming.written
               /\ buffered.failure = "none" =>
                     /\ buffered.result.kind = "completion"
                     /\ buffered.result.content = DeltaText(streaming.out)

\* Lines that are no data-prefixed parseable envelope.
Unparseable == {RawLine, BlankData, BadJson}

\* C5: whenever upstream answers 200 and the body has no parseable line (no
\* line at all, or only lines that are no data-prefixed parseable envelope),
\* the call ends in the UpstreamSilent failure on both paths, never as a
\* success with empty content.
C5_SilentWithoutParseable ==
    \A c \in Calls :
        (/\ call[c].pc = "done"
         /\ call[c].status = 200
         /\ call[c].failure # "read"
         /\ \A i \in DOMAIN call[c].body : call[c].body[i] \in Unparseable)
        => /\ call[c].failure = "silent"
           /\ call[c].result.kind # "completion"
           /\ \A i \in DOMAIN call[c].out : call[c].out[i] # Chunk(Empty, "stop")

\* C6: a chat call whose model name resolves to no bot id fails before any
\* other step of the pipeline, on both paths: no signer invocation, no
\* upstream request, no credential acquisition (the pool pointer is
\* unchanged), no write to the context store.
C6_UnknownModelFirst ==
    \A c \in Calls :
        (call[c].pc # "idle" /\ call[c].req.model = "gpt-4") =>
            /\ call[c].pc = "done"
            /\ call[c].failure = "unknown_model"
            /\ call[c].signs = 0 /\ call[c].evals = 0 /\ call[c].requests = 0
            /\ call[c].written = << >>
            /\ index = 0 /\ lockCount = 0 /\ handed = << >>
            /\ gate = Nobody
            /\ \A k \in SessionKeys : Len(writeLog[k]) = IF store[k] = "41" THEN 1 ELSE 0
            /\ IF call[c].req.stream
                 THEN call[c].out = <<Chunk(<<"unsupported_model">>, "stop"), DONE_CHUNK>>
                 ELSE call[c].result.kind = "raised" /\ call[c].result.status_code = 400

\* A buffered call for an unknown model is over, refused, though the signer
\* was ready to sign.
C6_Refused ==
    \E c \in Calls :
        /\ call[c].pc = "done"
        /\ call[c].req.model = "gpt-4"
        /\ ~call[c].req.stream
        /\ call[c].result.status_code = 400
        /\ initialized /\ ms_token = "T1"

\* The call's payload is built and its response not yet over.
InFlight(c) == call[c].pc \in {"sign_wait", "evaluating", "connecting", "reading"}
\* The conversation id of the first ConversationCreated event of a body that
\* carries one (None: there is none).
FirstCreated(body) ==
    LET hits == {i \in DOMAIN body :
                    /\ body[i].prefix /\ body[i].json = "object"
                    /\ body[i].event_type = 2002 /\ body[i].event_data = "object"
                    /\ body[i].conversation_id \notin {None, ""}}
    IN IF hits = {} THEN None
       ELSE body[CHOOSE i \in hits : \A j \in hits : i <= j].conversation_id
\* The ids written for a session key since its entry was created.
Written(k) == {writeLog[k][j] : j \in DOMAIN writeLog[k]}
\* A call writes the store at most once, only if it loaded the sentinel, and
\* then the id it captured; what it sends is the context it loaded, with
\* the creation flag on exactly for the sentinel, and an id it sends is one a
\* first turn of its session key captured.
C7_State ==
    \A c \in Calls :
        /\ Len(call[c].written) <= 1
        /\ call[c].written # << >> =>
              /\ call[c].conversation_id = "0"
              /\ call[c].written[1] = FirstCreated(call[c].body)
        /\ InFlight(c) =>
              /\ call[c].payload.conversation_id = call[c].conversation_id
              /\ call[c].payload.need_create_conversation = (call[c].conversation_id = "0")
              /\ call[c].conversation_id # "0" =>
                    call[c].conversation_id \in Written(call[c].req.user)
\* The store changes only by the write of a call, and a call that starts
\* loads the id written last for its session key (the sentinel if none).
C7_Step ==
    /\ \A k \in SessionKeys :
          store'[k] # store[k] =>
              \E c \in Calls : /\ call[c].req.user = k
                               /\ call[c].written = << >>
                               /\ call'[c].written = <<store'[k]>>
    /\ \A c \in Calls :
          (call[c].pc = "idle" /\ call'[c].pc # "idle") =>
              LET log == writeLog[call'[c].req.user] IN
              call'[c].conversation_id = IF log = << >> THEN "0" ELSE log[Len(log)]

\* C7 (as amended): a chat call writes the conversation context store at
\* most once, only if the context it loaded was the sentinel and upstream
\* returned a fresh conversation id during the call, and the value written is
\* that id; a call that started from another id never changes the store; a
\* later call for the same session key sends the id written last before it
\* started, with the creation flag off.
C7_WritesOnce == []C7_State /\ [][C7_Step]_vars

\* After a first turn captured "42" a later call of the session sends "42"
\* with the creation flag off.
C7_SecondTurn ==
    \E c \in Calls :
        /\ InFlight(c)
        /\ writeLog[call[c].req.user] = <<"42">>
        /\ call[c].payload.conversation_id = "42"
        /\ ~call[c].payload.need_create_conversation

\* C7 (as claimed): after a first turn captured id X, every later call for
\* the same session key sends X with the creation flag off.
C7_FirstIdForever ==
    \A c \in Calls :
        (InFlight(c) /\ call[c].conversation_id # "0") =>
            /\ call[c].payload.conversation_id = writeLog[call[c].req.user][1]
            /\ ~call[c].payload.need_create_conversation

\* The chunk that reports a failure: it ends the answer and has a message.
IsErrorChunk(ch) == ch.finish_reason = "stop" /\ ch.content # Empty
\* The failures raised inside the pipeline (the try blocks).
PipelineFailures ==
    {"cookie", "payload", "uninitialized", "sign", "connect", "status", "read", "parse",
     "silent", "join"}

\* C8: a failure raised in the pipeline of a chat call (credential, cookie,
\* payload, signing, connect, status check, body read, parsing) is caught and
\* converted: the buffered path returns exactly one error payload, the
\* streaming path emits exactly one error chunk and then exactly one
\* end-of-stream marker as the last element, also after delta chunks; no
\* exception reaches the caller.
C8_FailuresConverted ==
    \A c \in Calls :
        (call[c].pc = "done" /\ call[c].failure \in PipelineFailures) =>
            IF call[c].req.stream
            THEN LET out == call[c].out
                     n == Len(out)
                 IN /\ n >= 2
                    /\ out[n] = DONE_CHUNK
                    /\ IsErrorChunk(out[n - 1])
                    /\ \A i \in 1..(n - 2) : out[i].finish_reason = None
                    /\ call[c].result = NoResult
            ELSE /\ call[c].result.kind = "error"
                 /\ call[c].result.status_code = 500
                 /\ call[c].out = << >>

\* A streaming call failed in the middle of the body, after a delta chunk.
C8_FailedAfterDelta ==
    \E c \in Calls :
        /\ call[c].pc = "done"
        /\ call[c].req.stream
        /\ call[c].failure = "parse"
        /\ Len(call[c].out) = 3
        /\ call[c].out[1] = Chunk(Hel, None)

\* C9: when get_signed_url returns null for a chat call, the call issues no
\* upstream request, emits no delta, writes nothing to the context store and
\* ends as a server error; the signer is invoked at most once per call and
\* one credential is acquired per call (no retry, no fallback).
C9_NullAborts ==
    /\ lockCount <= started
    /\ \A c \in Calls :
          /\ call[c].signs <= 1 /\ call[c].evals <= 1
          /\ call[c].signResult = "null" =>
                /\ call[c].pc = "done"
                /\ call[c].failure = "sign"
                /\ call[c].requests = 0
                /\ call[c].body = << >>
                /\ call[c].written = << >>
                /\ IF call[c].req.stream
                     THEN call[c].out = <<Chunk(<<"server_error", "sign">>, "stop"), DONE_CHUNK>>
                     ELSE /\ call[c].out = << >>
                          /\ call[c].result.kind = "error"
                          /\ call[c].result.status_code = 500

\* A streaming call was refused a signature after the signing function was
\* evaluated for it.
C9_Refused ==
    \E c \in Calls :
        /\ call[c].req.stream
        /\ call[c].signResult = "null"
        /\ call[c].evals = 1

\* No token is held: none was observed yet, or the held value is empty.
NoToken(tok) == tok \in {Unset, None, ""}
\* The call enters the body of get_signed_url in this step.
SignEnters(c) ==
    /\ call[c].pc \in {"idle", "sign_wait"}
    /\ call'[c].pc \notin {"idle", "sign_wait"}
    /\ call'[c].signs = 1
\* get_signed_url returns a signed URL to the call in this step.
SignReturnsUrl(c) == call[c].pc = "evaluating" /\ call'[c].signResult = "url"
\* The msToken parameter of the call's URL.
UrlToken(rec) == QueryValue(rec.url.query, "msToken")

\* C10 (as amended): whenever an initialized signer holds no token (none was
\* observed, or the held value is empty), get_signed_url returns null and
\* does not evaluate the signing entry point; on a signer that is not
\* initialized it raises instead, and does not evaluate either.  A signed
\* URL is returned only if a token was held when get_signed_url read it, and
\* the URL carries that token as its msToken parameter.
C10_RefusesWithoutToken ==
    [][\A c \in Calls :
          /\ (SignEnters(c) /\ ~initialized) =>
                call'[c].signResult = "raised" /\ call'[c].evals = 0
          /\ (SignEnters(c) /\ initialized /\ NoToken(ms_token)) =>
                call'[c].signResult = "null" /\ call'[c].evals = 0
          /\ (SignEnters(c) /\ initialized /\ ~NoToken(ms_token)) =>
                /\ call'[c].pc = "evaluating"
                /\ call'[c].evals = 1
                /\ UrlToken(call'[c]) = ms_token
          /\ SignReturnsUrl(c) =>
                /\ ~NoToken(UrlToken(call[c]))
                /\ call'[c].url.query = call[c].url.query]_vars

\* An initialized signer holding the empty token refused a call without
\* evaluating.
C10_RefusedEmpty ==
    \E c \in Calls :
        /\ call[c].signResult = "null"
        /\ call[c].evals = 0
        /\ initialized
        /\ ms_token = ""

\* C10 (as claimed): whenever the signer holds no token get_signed_url
\* returns null without evaluating; a signed URL is returned only in a state
\* where a token is held, and it carries the held token.
C10_NullAndHeldToken ==
    [][\A c \in Calls :
          /\ (SignEnters(c) /\ NoToken(ms_token)) =>
                call'[c].signResult = "null" /\ call'[c].evals = 0
          /\ SignReturnsUrl(c) =>
                ~NoToken(ms_token) /\ UrlToken(call'[c]) = ms_token]_vars

\* ------------------------------------------------------------------ C11
\* The place of a key in the code-point order of the keys in use.
Rank(key) == CHOOSE i \in DOMAIN KeyOrder : KeyOrder[i] = key
\* The keys the signer merges: the caller's, the fingerprint's, tab id, token.
MergedKeys == DOMAIN base_params \cup {"device_id", "fp", "web_id", "tea_uuid"}
                \cup {"web_tab_id", "msToken"}
\* The call has a query string: sign has reached the signing entry point.
HasQuery(c) == call[c].pc \in {"evaluating", "connecting", "reading"}

\* C11: the query string handed to the signing entry point lists the merged
\* parameter set (caller parameters, the four fingerprint values, the tab
\* id, the token held) with its keys strictly ascending and each key once;
\* the signature is a parameter after that set, and the string signed is the
\* query string of the returned URL without the signature.
C11_SortedQuery ==
    \A c \in Calls : HasQuery(c) =>
        LET q == call[c].url.query IN
        /\ {q[i][1] : i \in DOMAIN q} = MergedKeys
        /\ \A i, j \in DOMAIN q : i < j => Rank(q[i][1]) < Rank(q[j][1])
        /\ \A k \in DOMAIN base_params : QueryValue(q, k) = base_params[k]
        /\ \A k \in {"device_id", "fp", "web_id", "tea_uuid"} :
               QueryValue(q, k) = static_device_fingerprint[k]
        /\ TokenHeld(QueryValue(q, "msToken"))
        /\ QueryValue(q, "a_bogus") = None
        /\ call[c].url.signed = q
        /\ call[c].signResult = "url" <=> call[c].url.a_bogus # ""

\* A call holds a signed URL: the sorted query and the signature after it.
C11_Signed ==
    \E c \in Calls :
        /\ call[c].pc = "connecting"
        /\ call[c].url.a_bogus # ""
        /\ Len(call[c].url.query) = Cardinality(MergedKeys)
        /\ call[c].url.query[1][1] = "aid"
        /\ call[c].url.query[6][1] = "msToken"

\* ------------------------------------------------------------------ C12
\* The call builds its cookie in this step and goes on to sign.
BuildsCookie(c) == call[c].pc = "idle" /\ call'[c].final_cookie # << >>
\* The cookie has a token field.
HasTokenField(cookie) == \E i \in DOMAIN cookie : cookie[i][1] = "msToken"

\* C12 (as claimed): for every raw cookie and every held token T, a cookie
\* with a token field comes back with that field's value replaced by T in
\* place and every other field unchanged and in its position; a cookie
\* without one comes back followed by the field msToken=T; either way the
\* result has the token field with value T, and building again from the
\* result with the same T gives the same cookie.
C12_CookieMerge ==
    [][\A c \in Calls : BuildsCookie(c) /\ TokenHeld(ms_token) =>
          LET base == CurrentCredential
              T == ms_token
              new_cookie == call'[c].final_cookie
          IN /\ IF HasTokenField(base)
                  THEN new_cookie = [i \in DOMAIN base |->
                                        IF base[i][1] = "msToken" THEN <<"msToken", T>>
                                        ELSE base[i]]
                  ELSE new_cookie = Append(base, <<"msToken", T>>)
             /\ \E i \in DOMAIN new_cookie : new_cookie[i] = <<"msToken", T>>
             /\ get_dynamic_cookie(new_cookie, T) = new_cookie]_vars

\* ------------------------------------------------------------------ C13
\* The malformed envelopes the claim names: invalid JSON, JSON that is no
\* object, a missing, null or non-JSON event_data, a missing or malformed
\* message content.
MalformedEnvelopes == MalformedLines \ {BlankData, Delta(NotAString)}
\* The body without its malformed envelopes.
WithoutMalformed(body) == SelectSeq(body, LAMBDA line : line \notin MalformedEnvelopes)
\* What the path of a finished call makes of another body, read to its end.
Replay(rec, body) ==
    LET start == [IdleCall EXCEPT !.pc = "reading", !.req = rec.req,
                                  !.conversation_id = rec.conversation_id,
                                  !.status = rec.status]
        RECURSIVE Run(_, _)
        Run(r, i) ==
            IF r.pc = "done" THEN r
            ELSE IF i > Len(body)
              THEN IF r.req.stream THEN StreamEnd(r) ELSE NonStreamEnd(r)
            ELSE Run(IF r.req.stream THEN StreamLine(r, body[i])
                     ELSE NonStreamLine(r, body[i]), i + 1)
    IN Run(start, 1)
\* The call is over; it got a 200 response whose body arrived whole, with a
\* malformed envelope in it.
ReadMalformed(c) ==
    /\ call[c].pc = "done"
    /\ call[c].requests = 1
    /\ call[c].status = 200
    /\ call[c].failure # "read"
    /\ \A i \in DOMAIN call[c].body : call[c].body[i] # Delta(NotAString)
    /\ \E i \in DOMAIN call[c].body : call[c].body[i] \in MalformedEnvelopes

\* C13: a malformed envelope at any position of the body is skipped and
\* never aborts the stream: the call still ends as a success, and every
\* well-formed event before and after it is processed as if the malformed
\* line were absent (same output, same completion, same store write).
C13_MalformedSkipped ==
    \A c \in Calls :
        ReadMalformed(c) =>
            /\ call[c].failure = "none"
            /\ WithoutMalformed(call[c].body) # << >> =>
                  LET clean == Replay(call[c], WithoutMalformed(call[c].body))
                  IN /\ call[c].out = clean.out
                     /\ call[c].result = clean.result
                     /\ call[c].written = clean.written

\* ------------------------------------------------------------------ C14
\* The ConversationCreated events of a body, by position.
CreatedEvents(body) ==
    {i \in DOMAIN body : /\ body[i].prefix /\ body[i].json = "object"
                         /\ body[i].event_type = 2002 /\ body[i].event_data = "object"}
\* The id the first ConversationCreated event of a body carries.
FirstEventId(body) ==
    body[CHOOSE i \in CreatedEvents(body) : \A j \in CreatedEvents(body) : i <= j].conversation_id

\* C14: within one call the conversation id captured is that of the first
\* ConversationCreated event of the body, and every later one is ignored,
\* whatever ids the events carry: the id persisted by a call that began at
\* the sentinel is always the first event's id.
C14_FirstCreatedWins ==
    \A c \in Calls :
        (/\ call[c].conversation_id = "0"
         /\ CreatedEvents(call[c].body) # {}) =>
            /\ call[c].pc = "reading" =>
                  call[c].new_conversation_id = FirstEventId(call[c].body)
            /\ call[c].written # << >> =>
                  call[c].written = <<FirstEventId(call[c].body)>>

\* ------------------------------------------------------------------ C15
\* The call receives the headers of its response in this step, with the
\* token-refresh header among them.
ReceivesToken(c) ==
    call[c].pc = "connecting" /\ call'[c].pc # "connecting" /\ call'[c].header # ""
\* A step of the token: a response's header is stored with the headers,
\* whatever the status and before any line of the body; the token changes
\* only by such a header, by the page observing a response, or by initialize
\* starting a new browser session; a sign call that enters the signer reads
\* the token held then.
C15_Step ==
    /\ \A c \in Calls :
          ReceivesToken(c) => /\ ms_token' = call'[c].header
                              /\ call'[c].body = << >>
    /\ ms_token' # ms_token =>
          \/ \E c \in Calls : ReceivesToken(c)
          \/ call' = call /\ life' = life /\ livePages > 0
          \/ ms_token' = None /\ \E t \in LifeTasks : /\ life[t].pc = "launching"
                                                       /\ life'[t].pc = "loading"
    /\ \A c \in Calls :
          (call[c].pc \in {"idle", "sign_wait"} /\ call'[c].pc = "evaluating") =>
              QueryValue(call'[c].url.query, "msToken") = ms_token

\* C15: under any interleaving of the token's writers (the page observing a
\* response, the x-ms-token header of an upstream response of any call) the
\* token held is the value written last; a response that carries the header
\* updates the token when its headers are received, before the status is
\* checked and before any body line is read, and a sign call that starts
\* afterwards uses the value held then.
C15_LastWriteWins == [][C15_Step]_vars

\* A call signs with the token that the rejected response of another call
\* brought.
C15_RefreshedByRejected ==
    \E c, d \in Calls :
        /\ call[c].failure = "status"
        /\ call[c].header = "T3"
        /\ call[d].pc = "evaluating"
        /\ QueryValue(call[d].url.query, "msToken") = "T3"

\* ------------------------------------------------------------------ C16
\* C16: in every payload built by _prepare_payload the conversation-creation
\* flag is on if and only if the context loaded for the call is the sentinel
\* "0"; the payload carries the context loaded, so none carries "0" with the
\* flag off and none a real conversation id with the flag on.
C16_SentinelAsksCreation ==
    \A c \in Calls :
        call[c].payload # NoPayload =>
            LET payload == call[c].payload IN
            /\ payload.need_create_conversation <=> call[c].conversation_id = "0"
            /\ payload.conversation_id = call[c].conversation_id
            /\ ~(payload.conversation_id = "0" /\ ~payload.need_create_conversation)
            /\ ~(payload.conversation_id # "0" /\ payload.need_create_conversation)

\* Two calls are under way, one from the sentinel asking for a conversation
\* and one continuing conversation "42".
C16_BothKinds ==
    \E c, d \in Calls :
        /\ call[c].payload # NoPayload /\ call[d].payload # NoPayload
        /\ call[c].payload.conversation_id = "0"
        /\ call[c].payload.need_create_conversation
        /\ call[d].payload.conversation_id = "42"
        /\ ~call[d].payload.need_create_conversation

\* ------------------------------------------------------------------ C17
\* C17: every upstream response whose status is not 200, other 2xx codes
\* included, is a hard failure: no line of its body is parsed, no delta is
\* emitted or accumulated, the context store is not written, and the call
\* ends with the error of a rejected response.
C17_Non200HardFailure ==
    \A c \in Calls :
        (call[c].requests = 1 /\ call[c].status \notin {0, 200}) =>
            /\ call[c].pc = "done"
            /\ call[c].failure = "status"
            /\ call[c].body = << >>
            /\ call[c].full_content = << >>
            /\ \A i \in DOMAIN call[c].out : IsErrorChunk(call[c].out[i])
                                               \/ call[c].out[i] = DONE_CHUNK
            /\ call[c].written = << >>
            /\ call[c].result.kind # "completion"

\* ------------------------------------------------------------------ C18
\* C18: an unknown model name reaches the caller as a client error on the
\* buffered and on the streaming path, unlike every other failure kind,
\* which reaches it as the one generic server error (status 500 and an
\* error payload, or an error chunk in the stream); no failure is retried.
C18_UnknownModelClientError ==
    \A c \in Calls :
        call[c].pc = "done" =>
            /\ call[c].failure = "unknown_model" =>
                  /\ ResponseStatus(call[c]) \in 400..499
                  /\ \A i \in DOMAIN call[c].out : ~IsErrorChunk(call[c].out[i])
            /\ call[c].failure \in PipelineFailures =>
                  IF call[c].req.stream
                  THEN /\ Len(call[c].out) >= 2
                       /\ IsErrorChunk(call[c].out[Len(call[c].out) - 1])
                  ELSE /\ ResponseStatus(call[c]) = 500
                       /\ call[c].result.kind = "error"
            /\ call[c].signs <= 1
            /\ call[c].requests <= 1

\* ------------------------------------------------------------------ C19
\* The messages of a list that have role user, by position.
UserTurns(messages) == {i \in DOMAIN messages : messages[i].role = "user"}

\* C19: for every message list with at least one user message the payload
\* carries exactly one message, whose text is the content of the last
\* message with role user; no earlier turn and no assistant or system
\* message is sent, whatever the length and order of the list.
C19_LastUserOnly ==
    \A c \in Calls :
        LET messages == call[c].req.messages
            users == UserTurns(messages)
        IN /\ call[c].payload # NoPayload =>
                /\ users # {}
                /\ Len(call[c].payload.messages) = 1
                /\ \E i \in users :
                      /\ \A j \in users : j <= i
                      /\ call[c].payload.messages[1] = messages[i].content
                /\ \A i \in DOMAIN messages :
                      (messages[i].role # "user" \/ \E j \in users : j > i) =>
                          call[c].payload.messages[1] # messages[i].content
           /\ (users # {} /\ call[c].pc = "done") => call[c].failure # "payload"

\* The list user, user, assistant: the second message is the one sent.
C19_MiddleTurn ==
    \E c \in Calls :
        /\ call[c].req.messages =
              <<Msg("user", "m1"), Msg("user", "m2"), Msg("assistant", "m3")>>
        /\ call[c].payload.messages = <<"m2">>

\* ------------------------------------------------------------------ C20
\* C20: close is idempotent: after a close of an initialized signer a further
\* close, after the first or concurrent with it, tears nothing down a second
\* time (browser.close() is called on an open browser only) and leaves the
\* signer closed; close of a signer never initialized does nothing.
C20_CloseIdempotent ==
    [][/\ teardowns' > teardowns => browser = "open"
       /\ \A x \in Closers :
             (life[CloseTask(x)].pc # "done" /\ life'[CloseTask(x)].pc = "done") =>
                 /\ ~initialized'
                 /\ browser' # "open" \/ life'[CloseTask(x)].outcome = "noop"
       /\ launches = 0 => teardowns' = 0]_vars

\* ------------------------------------------------------------------ C21
\* The initializer launches the browser in this step.
Launches(i) == life[InitTask(i)].pc = "launching" /\ life'[InitTask(i)].pc = "loading"
\* The initializer, which had to wait for the lock, gets it in this step.
StopsWaiting(i) == life[InitTask(i)].pc = "wait" /\ life'[InitTask(i)].pc # "wait"

\* C21: of any number of concurrent initialize calls exactly one launches the
\* browser: no initializer launches a browser while one is open, and an
\* initializer that waited for one that launched the browser returns, once
\* it has the lock, without launching, without registering the handler
\* again and without resetting the token held.
C21_OneLaunch ==
    [][\A i \in Inits :
          /\ Launches(i) => browser # "open"
          /\ (StopsWaiting(i) /\ browser = "open") =>
                /\ life'[InitTask(i)] = [pc |-> "done", outcome |-> "already"]
                /\ launches' = launches
                /\ livePages' = livePages
                /\ ms_token' = ms_token]_vars

\* ------------------------------------------------------------------ C22
\* The call is sending its request or reading the response.
Streaming(c) == call[c].pc \in {"connecting", "reading"}

\* C22: the signer's lock is held only for the duration of a sign or
\* lifecycle operation, never by a call that is sending its request or
\* reading its response: calls stream side by side, and a call waits for
\* the lock only behind an operation of the signer, never behind a call that
\* is streaming.
C22_GateFreeWhileStreaming ==
    /\ \A c \in Calls :
          Streaming(c) => /\ gate # CallTask(c)
                          /\ \A i \in DOMAIN gateQ : gateQ[i] # CallTask(c)
    /\ \A d \in Calls :
          call[d].pc = "sign_wait" =>
              \/ gate \in InBody
              \/ \E e \in Calls : call[e].pc = "sign_wait" /\ gate = CallTask(e)

\* One call signs while another is reading the body of its response.
C22_SignWhileStreaming ==
    \E c, d \in Calls :
        /\ call[c].pc = "reading"
        /\ Len(call[c].body) >= 1
        /\ call[d].pc = "evaluating"
        /\ gate = CallTask(d)

\* ------------------------------------------------------------------ C23
\* The value of the msToken field of a Cookie header, None without one.
CookieToken(cookie) ==
    IF \E i \in DOMAIN cookie : cookie[i][1] = "msToken"
    THEN cookie[CHOOSE i \in DOMAIN cookie : cookie[i][1] = "msToken"][2]
    ELSE None

\* C23: for every upstream request a call issues, the token in the Cookie
\* header built by _get_dynamic_cookie equals the msToken parameter of the
\* signed URL the request is sent to, whatever the interleaving of calls
\* and token updates.
C23_CookieMatchesUrl ==
    \A c \in Calls :
        call[c].pc = "connecting" =>
            CookieToken(call[c].final_cookie) = UrlToken(call[c])

\* ------------------------------------------------------------------ C24
\* The tasks that may hold the signer's lock: those inside an operation of
\* the signer, and a waiter that was handed the lock and has yet to run.
HandedGate ==
    {CallTask(c) : c \in {d \in Calls : call[d].pc = "sign_wait"}}
        \cup {t \in LifeTasks : life[t].pc = "wait"}

C24_Released ==
    /\ lock = Nobody
    /\ gate # Nobody => gate \in InBody \cup HandedGate
    /\ \A i \in DOMAIN gateQ : gateQ[i] \in HandedGate /\ gateQ[i] # gate

\* C24: the credential-pool lock and the signer's lock are never held
\* together, each is released on every path out of the operation that took
\* it (normal return, null return, raised error), and, every page.evaluate
\* returning, every sign call waiting for the signer's lock eventually gets
\* it and returns.
C24_NoDeadlock ==
    /\ []C24_Released
    /\ \A c \in Calls :
          (call[c].pc = "sign_wait") ~> (call[c].pc \notin {"sign_wait", "evaluating"})

\* A sign call queues behind a call that evaluates, itself admitted after a
\* wait.
C24_QueuedSign ==
    \E c, d \in Calls :
        /\ call[c].pc = "sign_wait"
        /\ \E i \in DOMAIN gateQ : gateQ[i] = CallTask(c)
        /\ call[d].pc = "evaluating"
        /\ gate = CallTask(d)

\* ------------------------------------------------------------------ C25
C25_State ==
    \A c \in Calls :
        /\ call[c].pc = "evaluating" => initialized
        /\ call[c].signResult = "raised" =>
              /\ call[c].pc = "done"
              /\ call[c].failure = "uninitialized"
              /\ call[c].evals = 0
              /\ call[c].requests = 0
              /\ IF call[c].req.stream
                   THEN call[c].out =
                            <<Chunk(<<"server_error", "uninitialized">>, "stop"), DONE_CHUNK>>
                   ELSE /\ call[c].out = << >>
                        /\ call[c].result.kind = "error"
                        /\ call[c].result.status_code = 500

C25_Step ==
    \A c \in Calls :
        /\ (SignEnters(c) /\ ~initialized) => call'[c].signResult = "raised"
        /\ call'[c].evals # call[c].evals => initialized /\ initialized'

\* C25: a sign call never evaluates the page while the signer is not
\* initialized: a sign that runs before a successful initialize, after a
\* failed one or after close (a sign that waited for the lock while close
\* ran included) fails without an evaluation, and its chat call ends as a
\* server error with no upstream request.
C25_NeverEvaluatesDown == []C25_State /\ [][C25_Step]_vars

\* close has cleared the flag with two signs waiting for the lock: the
\* first has failed without an evaluation and handed the lock to the second.
C25_RaisedAfterClose ==
    \E c, d \in Calls :
        /\ call[c].signResult = "raised"
        /\ call[c].evals = 0
        /\ call[d].pc = "sign_wait"
        /\ gate = CallTask(d)
        /\ ~initialized
        /\ browser = "closed"
        /\ \E x \in Closes : life[CloseTask(x)] = [pc |-> "done", outcome |-> "closed"]
====
